---------------------------- MODULE Spec2Model ----------------------------
(***************************************************************************)
(* CPU topology detection and OpenMP thread binding of the MKLDNN plugin   *)
(* (lin_omp_manager.cpp): Collection aggregates the processor records of   *)
(* /proc/cpuinfo, OpenMpManager derives the set of CPUs the process may    *)
(* use and one CPU per core, and binds threads to them.                    *)
(*                                                                         *)
(* Six specifications share the variables:                                 *)
(*   SpecParse CpuInfo over a text and Collection::parseCpuInfo, one line  *)
(*             per step, on the characters of the buffer;                  *)
(*   SpecClock the same steps over one "model name" line;                  *)
(*   SpecAgg   the loop of Collection::collectBasicCpuInformation, one     *)
(*             iteration per step, over arbitrary processor records;       *)
(*   SpecCore  OpenMpManager::getInstance() over topologies whose records  *)
(*             carry socket and core ids;                                  *)
(*   SpecGuard threads that call getInstance() at once, one step per       *)
(*             static local;                                               *)
(*   Spec      the whole policy: getInstance(), the GPU flag, the two      *)
(*             binding operations and the workers of the parallel region.  *)
(***************************************************************************)
EXTENDS Integers, Sequences, FiniteSets, TLC

\* Largest number of processor records of a topology of Spec and SpecCore;
\* the machine's CPU ids are 0 .. MaxProcs-1.
MaxProcs == 3

\* Largest "cpu cores" value of a record of Spec.
MaxCpuCores == 2

\* Largest number of processor records of SpecAgg.
MaxRecords == 5

\* The parallel runtime's default thread count (its nthreads-var before any
\* omp_set_num_threads call); no team is larger in the model.
MaxThreads == 2

\* Largest env_cores argument passed to bindOpenMpThreads.
MaxEnvCores == 1

CpuIds == 0 .. (MaxProcs - 1)

\* Thread 0 is the application thread that calls the binding operations and is
\* the master of every team; the others are the runtime's pool threads.
ThreadIds == 0 .. ((IF MaxThreads > MaxProcs THEN MaxThreads ELSE MaxProcs) - 1)

\* "physical id" values of the records.
SocketIds == {0, 1}

\* "core id" values of the records of SpecCore.
CoreIds == {0, 1}

\* "cpu cores" values of the records of SpecAgg.
CoreCounts == {4, 6, 9}

\* A thread that never called sched_setaffinity.
NoMask == {-1}

\* The null pointer, for currentLine and currentProcessor.
NULL == -1

\* Largest number of application threads that call into the manager at once.
MaxCallers == 2

CallerIds == 1 .. MaxCallers

\* The static locals of getInstance in the order of their declarations:
\* 1 cpuInfo, 2 collection, 3 openMpManager.
Statics == 1 .. 3

\* A thread that is not in a call: <<declaration it is at, what it does there>>.
Idle == <<0, "idle">>

\* A thread that holds the reference getInstance returned.
Holding == <<0, "holding">>

VARIABLES
    processors,                 \* Collection::processors, a sequence of Processor
    processorIt,                \* collectBasicCpuInformation: the iterator (1-based)
    uniquePhysicalId,           \* collectBasicCpuInformation: the std::set
    totalNumberOfSockets,       \* Collection::totalNumberOfSockets
    totalNumberOfCpuCores,      \* Collection::totalNumberOfCpuCores
    environ,                    \* names of the environment variables that are set
    osMask,                     \* the mask sched_getaffinity reports
    divZero,                    \* what the build does on x % 0, see DivZeroOutcomes
    pc,                         \* "collect", "Uninitialized", "Ready", "Crashed", "Hung"
    isAnyOpenMpEnvVarSpecified, \* OpenMpManager::isAnyOpenMpEnvVarSpecified
    isGpuEnabled,               \* OpenMpManager::isGpuEnabled
    currentCpuSet,              \* OpenMpManager::currentCpuSet
    currentCoreSet,             \* OpenMpManager::currentCoreSet
    ompNumThreads,              \* the runtime's nthreads-var
    affinity,                   \* per thread, the mask it last passed to sched_setaffinity
    team,                       \* size of the running parallel region's team, 0 if none
    pending,                    \* workers of the team that have not run the region's body
    cerr,                       \* "This should never happen!" was written to std::cerr
    event,                      \* the last step taken, see Event
    fileLines,                  \* the lines of the text CpuInfo is given
    content,                    \* CpuInfo: the buffer fileContentBegin points to
    currentLine,                \* CpuInfo::currentLine, an offset into content or NULL
    currentProcessor,           \* Collection::currentProcessor, a position in processors or NULL
    callers,                    \* per application thread, where it is in its call
    guard,                      \* per static of getInstance, the state of its guard
    constructions               \* per static of getInstance, how often its constructor ran

vars == <<processors, processorIt, uniquePhysicalId, totalNumberOfSockets,
          totalNumberOfCpuCores, environ, osMask, divZero, pc,
          isAnyOpenMpEnvVarSpecified,
          isGpuEnabled, currentCpuSet, currentCoreSet, ompNumThreads, affinity,
          team, pending, cerr, event, fileLines, content, currentLine, currentProcessor,
          callers, guard, constructions>>

parserVars == <<fileLines, content, currentLine, currentProcessor>>

collectionVars == <<processors, processorIt, uniquePhysicalId, totalNumberOfSockets,
                    totalNumberOfCpuCores, parserVars>>

callerVars == <<callers, guard, constructions>>

planVars == <<isAnyOpenMpEnvVarSpecified, currentCpuSet, currentCoreSet>>

runtimeVars == <<ompNumThreads, affinity, team, pending>>

-----------------------------------------------------------------------------
(* Processor and Collection *)

\* Processor::Processor(): every field starts at 0.
Processor == [processor |-> 0, physicalId |-> 0, siblings |-> 0, coreId |-> 0,
              cpuCores |-> 0, speedMHz |-> 0]

\* A record as parseValue leaves it: the fields a recognised line assigned.
ProcessorWith(id, socket, core, cores) ==
    [Processor EXCEPT !.processor = id, !.physicalId = socket, !.coreId = core,
                      !.cpuCores = cores]

\* Collection::getNumberOfProcessors
getNumberOfProcessors(procs) == Len(procs)

\* Collection::updateCpuInformation on the pair of counters: nothing changes
\* while the number of distinct physical ids stays what it was; otherwise the
\* socket count follows it and this record's cpuCores is added.
\* (totalNumberOfCpuCores is a 32-bit unsigned; the sums of the model stay far
\* below 2^32, where it would wrap.)
UpdateEveryRecord(agg, proc, numberOfUniquePhysicalId) ==
    [totalNumberOfSockets |-> numberOfUniquePhysicalId,
     totalNumberOfCpuCores |-> agg.totalNumberOfCpuCores + proc.cpuCores]

updateCpuInformation(agg, proc, numberOfUniquePhysicalId) ==
    IF agg.totalNumberOfSockets = numberOfUniquePhysicalId
    THEN agg
    ELSE [totalNumberOfSockets |-> numberOfUniquePhysicalId,
          totalNumberOfCpuCores |-> agg.totalNumberOfCpuCores + proc.cpuCores]

\* Collection::collectBasicCpuInformation from iterator position i on.
RECURSIVE collectFrom(_, _, _, _)
collectFrom(procs, i, unique, agg) ==
    IF i > Len(procs)
    THEN agg
    ELSE LET seen == unique \cup {procs[i].physicalId}
         IN  collectFrom(procs, i + 1, seen,
                         updateCpuInformation(agg, procs[i], Cardinality(seen)))

\* Collection::Collection: both counters start at 0, then the loop runs.
collectBasicCpuInformation(procs) ==
    collectFrom(procs, 1, {}, [totalNumberOfSockets |-> 0, totalNumberOfCpuCores |-> 0])

-----------------------------------------------------------------------------
(* OpenMpManager: construction *)

\* The names OpenMpManager looks up in the environment.
openMpEnvVars ==
    <<"OMP_CANCELLATION", "OMP_DISPLAY_ENV", "OMP_DEFAULT_DEVICE", "OMP_DYNAMIC",
      "OMP_MAX_ACTIVE_LEVELS", "OMP_MAX_TASK_PRIORITY", "OMP_NESTED",
      "OMP_NUM_THREADS", "OMP_PROC_BIND", "OMP_PLACES", "OMP_STACKSIZE",
      "OMP_SCHEDULE", "OMP_THREAD_LIMIT", "OMP_WAIT_POLICY", "GOMP_CPU_AFFINITY",
      "GOMP_DEBUG", "GOMP_STACKSIZE", "GOMP_SPINCOUNT", "GOMP_RTEMS_THREAD_POOLS",
      "KMP_AFFINITY", "KMP_NUM_THREADS", "MIC_KMP_AFFINITY",
      "MIC_OMP_NUM_THREADS", "MIC_OMP_PROC_BIND", "PHI_KMP_AFFINITY",
      "PHI_OMP_NUM_THREADS", "PHI_KMP_PLACE_THREADS", "MKL_NUM_THREADS",
      "MKL_DYNAMIC", "MKL_DOMAIN_NUM_THREADS">>

numberOfOpenMpEnvVars == Len(openMpEnvVars)

\* The environments of the model: variables the manager looks for, and one it
\* does not.
EnvNames == {"KMP_AFFINITY", "PATH"}

\* OpenMpManager::getOpenMpEnvVars: the value of isAnyOpenMpEnvVarSpecified
\* after the loop over the names, getenv(name) being non-null iff name is set.
RECURSIVE envLoop(_, _, _)
envLoop(env, i, flag) ==
    IF i > numberOfOpenMpEnvVars
    THEN flag
    ELSE envLoop(env, i + 1, IF openMpEnvVars[i] \in env THEN TRUE ELSE flag)

getOpenMpEnvVars(env) == envLoop(env, 1, FALSE)

\* OpenMpManager::getDefaultCpuSet: the ids 0 .. numberOfProcessors-1.
getDefaultCpuSet(numberOfProcessors) == {p \in CpuIds : p < numberOfProcessors}

\* OpenMpManager::getCurrentCpuSet: the mask sched_getaffinity reports, or
\* the default set when the call fails.
getCurrentCpuSet(queryFails, mask, numberOfProcessors) ==
    IF queryFails THEN getDefaultCpuSet(numberOfProcessors) ELSE mask

\* x % 0 on unsigned operands is undefined behaviour. A build either traps
\* (the x86 div instruction raises SIGFPE) or goes on with a value (a divide
\* instruction that does not trap yields quotient 0, so the remainder x); it
\* does the same at every division.
DivZeroOutcomes == {"trap", "dividend"}

Traps(divisor, ub) == divisor = 0 /\ ub = "trap"

Rem(x, divisor) == IF divisor = 0 THEN x ELSE x % divisor

\* OpenMpManager::getCurrentCoreSet from processorId on; acc holds usedCoreSet,
\* currentCoreSet and whether a division trapped.
RECURSIVE coreSetMarkingProcessor(_, _, _, _, _, _)
coreSetMarkingProcessor(processorId, numberOfProcessors, totalCores, cpuSet, ub, acc) ==
    IF processorId >= numberOfProcessors \/ acc.trapped
    THEN acc
    ELSE coreSetMarkingProcessor(processorId + 1, numberOfProcessors, totalCores, cpuSet, ub,
            IF processorId \notin cpuSet
            THEN acc
            ELSE IF Traps(totalCores, ub)
            THEN [acc EXCEPT !.trapped = TRUE]
            ELSE IF processorId \in acc.usedCoreSet
            THEN acc
            ELSE [acc EXCEPT !.usedCoreSet = @ \cup {processorId},
                             !.currentCoreSet = @ \cup {processorId}])

RECURSIVE coreSetFrom(_, _, _, _, _, _)
coreSetFrom(processorId, numberOfProcessors, totalCores, cpuSet, ub, acc) ==
    IF processorId >= numberOfProcessors \/ acc.trapped
    THEN acc
    ELSE coreSetFrom(processorId + 1, numberOfProcessors, totalCores, cpuSet, ub,
            IF processorId \notin cpuSet
            THEN acc
            ELSE IF Traps(totalCores, ub)
            THEN [acc EXCEPT !.trapped = TRUE]
            ELSE LET coreId == Rem(processorId, totalCores)
                 IN  IF coreId \in acc.usedCoreSet
                     THEN acc
                     ELSE [acc EXCEPT !.usedCoreSet = @ \cup {coreId},
                                      !.currentCoreSet = @ \cup {processorId}])

\* The bug of marking the processor, not its core, as used.
GetCurrentCoreSetMarkingProcessor(numberOfProcessors, totalCores, cpuSet, ub) ==
    coreSetMarkingProcessor(0, numberOfProcessors, totalCores, cpuSet, ub,
        [usedCoreSet |-> {}, currentCoreSet |-> {}, trapped |-> FALSE])

\* OpenMpManager::getCurrentCoreSet: [currentCoreSet, trapped].
getCurrentCoreSet(numberOfProcessors, totalCores, cpuSet, ub) ==
    coreSetFrom(0, numberOfProcessors, totalCores, cpuSet, ub,
        [usedCoreSet |-> {}, currentCoreSet |-> {}, trapped |-> FALSE])

-----------------------------------------------------------------------------
(* OpenMpManager: lookups *)

\* CPU_COUNT
CPU_COUNT(set) == Cardinality(set)

\* OpenMpManager::getPhysicalCoreId from processorId on, logicalCoreId being
\* what is left of the countdown: [found, id].
RECURSIVE physicalCoreIdFrom(_, _, _, _)
physicalCoreIdFrom(processorId, numberOfProcessors, coreSet, logicalCoreId) ==
    IF processorId >= numberOfProcessors
    THEN [found |-> FALSE, id |-> 0]
    ELSE IF processorId \in coreSet
         THEN IF logicalCoreId = 0
              THEN [found |-> TRUE, id |-> processorId]
              ELSE physicalCoreIdFrom(processorId + 1, numberOfProcessors, coreSet,
                                      logicalCoreId - 1)
         ELSE physicalCoreIdFrom(processorId + 1, numberOfProcessors, coreSet,
                                 logicalCoreId)

\* OpenMpManager::getPhysicalCoreId: the logicalCoreId-th lowest member of
\* currentCoreSet; when there is none, the message goes to std::cerr
\* (found = FALSE) and 0 is returned.
getPhysicalCoreId(logicalCoreId, numberOfProcessors, coreSet) ==
    physicalCoreIdFrom(0, numberOfProcessors, coreSet, logicalCoreId)

\* OpenMpManager::selectAllCoreCpus from processorId on (totalCores > 0).
RECURSIVE selectFrom(_, _, _, _, _)
selectFrom(processorId, numberOfProcessors, totalCores, cpuSet, set) ==
    IF processorId >= numberOfProcessors
    THEN set
    ELSE selectFrom(processorId + totalCores, numberOfProcessors, totalCores, cpuSet,
                    IF processorId \in cpuSet THEN set \cup {processorId} ELSE set)

\* OpenMpManager::selectAllCoreCpus: [outcome, set]. With totalCores = 0 the
\* first statement divides by zero; a build that goes on starts at
\* physicalCoreId and adds 0 to processorId for ever once the loop is entered.
selectAllCoreCpus(set, physicalCoreId, numberOfProcessors, totalCores, cpuSet, ub) ==
    IF Traps(totalCores, ub)
    THEN [outcome |-> "trap", set |-> set]
    ELSE IF totalCores = 0
         THEN IF Rem(physicalCoreId, totalCores) < numberOfProcessors
              THEN [outcome |-> "hang", set |-> set]
              ELSE [outcome |-> "ok", set |-> set]
         ELSE [outcome |-> "ok",
               set |-> selectFrom(Rem(physicalCoreId, totalCores), numberOfProcessors,
                                  totalCores, cpuSet, set)]

\* The bug of letting either condition alone allow binding.
IsThreadsBindAllowedEither == ~isAnyOpenMpEnvVarSpecified \/ ~isGpuEnabled

\* OpenMpManager::isThreadsBindAllowed
isThreadsBindAllowed == ~isAnyOpenMpEnvVarSpecified /\ ~isGpuEnabled

\* OpenMpManager::getCoreNumber
getCoreNumber == CPU_COUNT(currentCoreSet)

\* omp_set_num_threads(n): the values nthreads-var may hold afterwards. A
\* positive n is stored. For n <= 0 OpenMP leaves the behaviour to the
\* implementation: libgomp and libomp store 1, another may ignore the call.
omp_set_num_threads(n, current) == IF n > 0 THEN {n} ELSE {1, current}

\* OpenMpManager::setOpenMpThreadNumberLimit: the argument it passes on.
setOpenMpThreadNumberLimit(env_cores, coreSet) ==
    IF env_cores = 0 THEN CPU_COUNT(coreSet) ELSE 0

\* OpenMpManager::bindCurrentThreadToLogicalCoreCpu: what the calling thread
\* passes to sched_setaffinity, and whether getPhysicalCoreId found the core.
bindCurrentThreadToLogicalCoreCpu(logicalCoreId) ==
    LET physicalCoreId == getPhysicalCoreId(logicalCoreId, getNumberOfProcessors(processors),
                                            currentCoreSet)
    IN  [found |-> physicalCoreId.found, set |-> {physicalCoreId.id}]

\* OpenMpManager::bindCurrentThreadToLogicalCoreCpus: the same with the set
\* selectAllCoreCpus fills, and how that call ended.
bindCurrentThreadToLogicalCoreCpus(logicalCoreId, ub) ==
    LET physicalCoreId == getPhysicalCoreId(logicalCoreId, getNumberOfProcessors(processors),
                                            currentCoreSet)
        selected == selectAllCoreCpus({}, physicalCoreId.id, getNumberOfProcessors(processors),
                                      totalNumberOfCpuCores, currentCpuSet, ub)
    IN  [found |-> physicalCoreId.found, outcome |-> selected.outcome, set |-> selected.set]

-----------------------------------------------------------------------------
(* The policy: Spec *)

\* op: the step; arg: its argument; allowed: what isThreadsBindAllowed answered
\* in it; ret: the number it returned; outOfRange: getPhysicalCoreId found no
\* core for the index it was given.
Event(op, arg, allowed, ret, outOfRange) ==
    [op |-> op, arg |-> arg, allowed |-> allowed, ret |-> ret, outOfRange |-> outOfRange]

\* A single-socket topology of n logical processors whose records all report
\* c "cpu cores" (c = 0: the field is missing), core ids going round.
UniformTopology(n, c) ==
    [i \in 1 .. n |-> ProcessorWith(i - 1, 0, IF c = 0 THEN 0 ELSE (i - 1) % c, c)]

\* The process before the first getInstance(): nothing is constructed, the
\* runtime holds its default thread count, no thread has set its affinity.
Unconstructed ==
    /\ processorIt = 1
    /\ uniquePhysicalId = {}
    /\ totalNumberOfSockets = 0
    /\ totalNumberOfCpuCores = 0
    /\ isAnyOpenMpEnvVarSpecified = FALSE
    /\ isGpuEnabled = FALSE
    /\ currentCpuSet = {}
    /\ currentCoreSet = {}
    /\ ompNumThreads = MaxThreads
    /\ affinity = [t \in ThreadIds |-> NoMask]
    /\ team = 0
    /\ pending = {}
    /\ cerr = FALSE
    /\ event = Event("start", 0, FALSE, 0, FALSE)
    /\ callers = [t \in CallerIds |-> Idle]
    /\ guard = [k \in Statics |-> "Uninitialized"]
    /\ constructions = [k \in Statics |-> 0]

\* The text of /proc/cpuinfo is left out: the records are given.
NoFile ==
    /\ fileLines = << >>
    /\ content = << >>
    /\ currentLine = NULL
    /\ currentProcessor = NULL

Init ==
    /\ \E n \in 0 .. MaxProcs, c \in 0 .. MaxCpuCores : processors = UniformTopology(n, c)
    /\ environ \in SUBSET EnvNames
    /\ osMask \in (SUBSET CpuIds) \ {{}}
    /\ divZero \in DivZeroOutcomes
    /\ pc = "Uninitialized"
    /\ Unconstructed
    /\ NoFile

\* Collection::Collection over the records of processors: the loop of
\* collectBasicCpuInformation has run.
CollectionConstructor ==
    LET agg == collectBasicCpuInformation(processors)
    IN  /\ processorIt' = Len(processors) + 1
        /\ uniquePhysicalId' = {}
        /\ totalNumberOfSockets' = agg.totalNumberOfSockets
        /\ totalNumberOfCpuCores' = agg.totalNumberOfCpuCores

\* OpenMpManager::OpenMpManager over the constructed collection (it reads the
\* aggregate the collection holds by then).
OpenMpManagerConstructor ==
    \E queryFails \in BOOLEAN :
        LET numberOfProcessors == getNumberOfProcessors(processors)
            cpuSet == getCurrentCpuSet(queryFails, osMask, numberOfProcessors)
            cores == getCurrentCoreSet(numberOfProcessors, totalNumberOfCpuCores',
                                       cpuSet, divZero)
        IN  /\ isAnyOpenMpEnvVarSpecified' = getOpenMpEnvVars(environ)
            /\ isGpuEnabled' = FALSE
            /\ currentCpuSet' = cpuSet
            /\ currentCoreSet' = cores.currentCoreSet
            /\ pc' = IF cores.trapped THEN "Crashed" ELSE "Ready"

\* The initialisation of the three statics of getInstance, in the order of
\* their declarations: CpuInfo and Collection (the records are those of
\* processors), then OpenMpManager.
StaticInitialization ==
    /\ CollectionConstructor
    /\ OpenMpManagerConstructor
    /\ guard' = [k \in Statics |-> IF k = 3 /\ pc' = "Crashed" THEN "InProgress" ELSE "Done"]
    /\ constructions' = [k \in Statics |->
                             IF k = 3 /\ pc' = "Crashed" THEN constructions[k]
                             ELSE constructions[k] + 1]
    /\ UNCHANGED <<processors, parserVars, environ, osMask, divZero, runtimeVars, cerr>>

\* OpenMpManager::getInstance, the call that constructs the statics. Every
\* static operation starts with getInstance(), so the operations below run
\* once this step is done.
GetInstance ==
    /\ pc = "Uninitialized"
    /\ StaticInitialization
    /\ event' = Event("getInstance", 0, FALSE, 0, FALSE)
    /\ UNCHANGED callers

\* OpenMpManager::setGpuEnabled
SetGpuEnabled ==
    /\ pc = "Ready"
    /\ isGpuEnabled' = TRUE
    /\ event' = Event("setGpuEnabled", 0, FALSE, 0, FALSE)
    /\ UNCHANGED <<collectionVars, callerVars, environ, osMask, divZero, pc, planVars, runtimeVars, cerr>>

\* The bug of setting the flag in setGpuDisabled too.
SetGpuDisabledSetsFlag ==
    /\ pc = "Ready"
    /\ isGpuEnabled' = TRUE
    /\ event' = Event("setGpuDisabled", 0, FALSE, 0, FALSE)
    /\ UNCHANGED <<collectionVars, callerVars, environ, osMask, divZero, pc, planVars, runtimeVars, cerr>>

\* OpenMpManager::setGpuDisabled
SetGpuDisabled ==
    /\ pc = "Ready"
    /\ isGpuEnabled' = FALSE
    /\ event' = Event("setGpuDisabled", 0, FALSE, 0, FALSE)
    /\ UNCHANGED <<collectionVars, callerVars, environ, osMask, divZero, pc, planVars, runtimeVars, cerr>>

\* A call of OpenMpManager::isThreadsBindAllowed; event keeps what it returned.
IsThreadsBindAllowed ==
    /\ pc = "Ready"
    /\ event' = Event("isThreadsBindAllowed", 0, isThreadsBindAllowed, 0, FALSE)
    /\ UNCHANGED <<collectionVars, callerVars, environ, osMask, divZero, pc, planVars, isGpuEnabled,
                   runtimeVars, cerr>>

\* OpenMpManager::getOpenMpThreadNumber; event keeps what it returned.
GetOpenMpThreadNumber ==
    /\ pc = "Ready"
    /\ event' = Event("getOpenMpThreadNumber", 0, FALSE, getCoreNumber, FALSE)
    /\ UNCHANGED <<collectionVars, callerVars, environ, osMask, divZero, pc, planVars, isGpuEnabled,
                   runtimeVars, cerr>>

\* OpenMpManager::bindCurrentThreadToNonPrimaryCoreIfPossible, called by
\* thread 0 outside a parallel region.
BindCurrentThreadToNonPrimaryCoreIfPossible ==
    /\ pc = "Ready"
    /\ team = 0
    /\ IF ~isThreadsBindAllowed
       THEN /\ event' = Event("bindCurrentThreadToNonPrimaryCoreIfPossible", 0,
                              FALSE, 0, FALSE)
            /\ UNCHANGED <<pc, affinity, cerr>>
       ELSE   LET totalNumberOfAvailableCores == CPU_COUNT(currentCoreSet)
                  logicalCoreToBindTo == IF totalNumberOfAvailableCores > 1 THEN 1 ELSE 0
                  bound == bindCurrentThreadToLogicalCoreCpus(logicalCoreToBindTo, divZero)
              IN  /\ event' = Event("bindCurrentThreadToNonPrimaryCoreIfPossible", 0,
                                    TRUE, 0, ~bound.found)
                  /\ cerr' = (cerr \/ ~bound.found)
                  /\ pc' = CASE bound.outcome = "trap" -> "Crashed"
                             [] bound.outcome = "hang" -> "Hung"
                             [] OTHER -> "Ready"
                  /\ affinity' = IF bound.outcome = "ok"
                                 THEN [affinity EXCEPT ![0] = bound.set]
                                 ELSE affinity
    /\ UNCHANGED <<collectionVars, callerVars, environ, osMask, divZero, planVars, isGpuEnabled,
                   ompNumThreads, team, pending>>

\* OpenMpManager::bindOpenMpThreads up to the start of the parallel region,
\* called by thread 0 outside a parallel region: the thread count is set and
\* the runtime forms a team of at most nthreads-var threads.
BindOpenMpThreads ==
    /\ pc = "Ready"
    /\ team = 0
    /\ \E env_cores \in 0 .. MaxEnvCores :
         /\ event' = Event("bindOpenMpThreads", env_cores, isThreadsBindAllowed, 0, FALSE)
         /\ IF ~isThreadsBindAllowed
            THEN UNCHANGED <<ompNumThreads, team, pending>>
            ELSE \E n \in omp_set_num_threads(
                             setOpenMpThreadNumberLimit(env_cores, currentCoreSet),
                             ompNumThreads) :
                   /\ ompNumThreads' = n
                   /\ \E size \in 1 .. n :
                        /\ team' = size
                        /\ pending' = 0 .. (size - 1)
    /\ UNCHANGED <<collectionVars, callerVars, environ, osMask, divZero, pc, planVars, isGpuEnabled,
                   affinity, cerr>>

\* The body of the parallel region, run by the worker omp_get_thread_num()
\* numbers logicalCoreId; the workers run it in any order.
WorkerBind ==
    /\ pc = "Ready"
    /\ \E logicalCoreId \in pending :
         LET bound == bindCurrentThreadToLogicalCoreCpu(logicalCoreId)
         IN  /\ cerr' = (cerr \/ ~bound.found)
             /\ affinity' = [affinity EXCEPT ![logicalCoreId] = bound.set]
             /\ pending' = pending \ {logicalCoreId}
             /\ event' = Event("worker", logicalCoreId, FALSE, 0, ~bound.found)
    /\ UNCHANGED <<collectionVars, callerVars, environ, osMask, divZero, pc, planVars, isGpuEnabled,
                   ompNumThreads, team>>

\* The end of the parallel region: every worker ran the body and
\* bindOpenMpThreads returns.
Join ==
    /\ pc = "Ready"
    /\ team > 0
    /\ pending = {}
    /\ team' = 0
    /\ event' = Event("join", 0, FALSE, 0, FALSE)
    /\ UNCHANGED <<collectionVars, callerVars, environ, osMask, divZero, pc, planVars, isGpuEnabled,
                   ompNumThreads, affinity, pending, cerr>>

Next ==
    \/ GetInstance
    \/ SetGpuEnabled
    \/ SetGpuDisabled
    \/ IsThreadsBindAllowed
    \/ GetOpenMpThreadNumber
    \/ BindCurrentThreadToNonPrimaryCoreIfPossible
    \/ BindOpenMpThreads
    \/ WorkerBind
    \/ Join

Spec == Init /\ [][Next]_vars

-----------------------------------------------------------------------------
(* The aggregation loop: SpecAgg *)

\* The n records, numbered in file order, with the given sockets and core counts.
AggTopology(n, socket, cores) ==
    [i \in 1 .. n |-> ProcessorWith(i - 1, socket[i], 0, cores[i])]

\* Collection::Collection after parseCpuInfo(): the counters are 0 and
\* collectBasicCpuInformation is about to look at the first record.
InitAgg ==
    /\ \E n \in 0 .. MaxRecords :
         \E socket \in [1 .. n -> SocketIds], cores \in [1 .. n -> CoreCounts] :
           processors = AggTopology(n, socket, cores)
    /\ environ = {}
    /\ osMask = CpuIds
    /\ divZero = "trap"
    /\ pc = "collect"
    /\ Unconstructed
    /\ NoFile

\* One iteration of the loop of Collection::collectBasicCpuInformation.
CollectStep ==
    /\ pc = "collect"
    /\ processorIt <= Len(processors)
    /\ LET seen == uniquePhysicalId \cup {processors[processorIt].physicalId}
           agg == updateCpuInformation(
                      [totalNumberOfSockets |-> totalNumberOfSockets,
                       totalNumberOfCpuCores |-> totalNumberOfCpuCores],
                      processors[processorIt], Cardinality(seen))
       IN  /\ uniquePhysicalId' = seen
           /\ totalNumberOfSockets' = agg.totalNumberOfSockets
           /\ totalNumberOfCpuCores' = agg.totalNumberOfCpuCores
    /\ processorIt' = processorIt + 1
    /\ event' = Event("collect", processorIt, FALSE, 0, FALSE)
    /\ UNCHANGED <<processors, parserVars, callerVars, environ, osMask, divZero, pc,
                   planVars, isGpuEnabled, runtimeVars, cerr>>

\* The loop ends at processors.end() and the set goes out of scope.
CollectEnd ==
    /\ pc = "collect"
    /\ processorIt > Len(processors)
    /\ pc' = "collected"
    /\ uniquePhysicalId' = {}
    /\ event' = Event("collected", 0, FALSE, 0, FALSE)
    /\ UNCHANGED <<processors, processorIt, totalNumberOfSockets, totalNumberOfCpuCores,
                   parserVars, callerVars, environ, osMask, divZero, planVars,
                   isGpuEnabled, runtimeVars, cerr>>

NextAgg == CollectStep \/ CollectEnd

SpecAgg == InitAgg /\ [][NextAgg]_vars

-----------------------------------------------------------------------------
(* Construction over socket and core ids: SpecCore *)

\* The n records, numbered in file order, with the given sockets and core ids
\* and with "cpu cores" as the kernel writes it: the number of cores of the
\* record's socket that have a processor online.
KernelTopology(n, socket, core) ==
    [i \in 1 .. n |->
        ProcessorWith(i - 1, socket[i], core[i],
            Cardinality({core[j] : j \in {k \in 1 .. n : socket[k] = socket[i]}}))]

InitCore ==
    /\ \E n \in 0 .. MaxProcs :
         \E socket \in [1 .. n -> SocketIds], core \in [1 .. n -> CoreIds] :
           processors = KernelTopology(n, socket, core)
    /\ environ = {}
    /\ osMask \in (SUBSET CpuIds) \ {{}}
    /\ divZero \in DivZeroOutcomes
    /\ pc = "Uninitialized"
    /\ Unconstructed
    /\ NoFile

NextCore == GetInstance

SpecCore == InitCore /\ [][NextCore]_vars

-----------------------------------------------------------------------------
(* CpuInfo and the line parser of Collection *)

\* A text, a line and the buffer are sequences of characters; offsets into the
\* buffer count from 0 as the pointers of the code do.
NUL == "NUL"

\* CpuInfo::parseLines: every newline of the buffer becomes a terminator.
parseLines(text) == [i \in DOMAIN text |-> IF text[i] = "\n" THEN NUL ELSE text[i]]

\* CpuInfo::loadContent: the copy of contentLength + 1 characters, the last
\* one the terminator snprintf writes.
loadContent(text) == parseLines(text) \o <<NUL>>

\* CpuInfo::fileContentEnd, the offset of the copy's terminator.
fileContentEnd(buf) == Len(buf) - 1

\* The offset of the terminator of the string that starts at off.
RECURSIVE stringEnd(_, _)
stringEnd(buf, off) == IF buf[off + 1] = NUL THEN off ELSE stringEnd(buf, off + 1)

\* CpuInfo::getFirstLine up to its call of getNextLine: the new currentLine.
getFirstLine(buf) == IF 0 < fileContentEnd(buf) THEN 0 ELSE NULL

\* CpuInfo::getNextLine: the line it returns and the new currentLine.
getNextLine(buf, current) ==
    IF current = NULL
    THEN [line |-> NULL, currentLine |-> NULL]
    ELSE LET next == stringEnd(buf, current) + 1
         IN  [line |-> current,
              currentLine |-> IF next >= fileContentEnd(buf) THEN NULL ELSE next]

\* strcspn(&buf[off], ":")
RECURSIVE strcspn(_, _)
strcspn(buf, off) == IF buf[off + 1] \in {NUL, ":"} THEN 0 ELSE 1 + strcspn(buf, off + 1)

\* Collection::beginsWith from the i-th character of text on; the comparison
\* ends at the first difference, at the latest at the line's terminator.
RECURSIVE beginsWithFrom(_, _, _, _)
beginsWithFrom(buf, off, text, i) ==
    IF i > Len(text)
    THEN TRUE
    ELSE IF buf[off + i] # text[i]
         THEN FALSE
         ELSE beginsWithFrom(buf, off, text, i + 1)

\* Collection::beginsWith
beginsWith(buf, off, text) == beginsWithFrom(buf, off, text, 1)

\* isspace and isdigit
isspace(c) == c \in {" ", "\t", "\n"}

Digits == <<"0", "1", "2", "3", "4", "5", "6", "7", "8", "9">>

isdigit(c) == \E d \in DOMAIN Digits : Digits[d] = c

DigitValue(c) == (CHOOSE d \in DOMAIN Digits : Digits[d] = c) - 1

\* The offset of the first character at or after off that is no white space.
RECURSIVE skipSpace(_, _)
skipSpace(buf, off) == IF isspace(buf[off + 1]) THEN skipSpace(buf, off + 1) ELSE off

\* The digits from off on: the number they make after acc, how many there
\* are, and the offset behind them.
RECURSIVE digitsFrom(_, _, _, _)
digitsFrom(buf, off, acc, count) ==
    IF isdigit(buf[off + 1])
    THEN digitsFrom(buf, off + 1, 10 * acc + DigitValue(buf[off + 1]), count + 1)
    ELSE [value |-> acc, count |-> count, end |-> off]

\* atol on an unsigned decimal text (no text of the model carries a sign).
atol(buf, off) == digitsFrom(buf, skipSpace(buf, off), 0, 0).value

\* off is no offset of the buffer: a read there is outside the allocation.
OutsideBuffer(buf, off) == off > fileContentEnd(buf)

\* Collection::parseInteger; a read outside the buffer yields junk.
parseInteger(buf, off, junk) == IF OutsideBuffer(buf, off) THEN junk ELSE atol(buf, off)

\* strstr(&buf[off], "@"): the offset of the first '@', or NULL.
RECURSIVE strstrAt(_, _)
strstrAt(buf, off) ==
    IF buf[off + 1] = NUL
    THEN NULL
    ELSE IF buf[off + 1] = "@" THEN off ELSE strstrAt(buf, off + 1)

\* 10 to the power n.
RECURSIVE Pow10(_)
Pow10(n) == IF n = 0 THEN 1 ELSE 10 * Pow10(n - 1)

\* strtod on a decimal text without sign or exponent: the value as the
\* fraction num / scale, and the offset the end pointer receives. Without a
\* digit nothing is converted: the value is 0 and the end is off itself.
strtod(buf, off) ==
    LET start == skipSpace(buf, off)
        whole == digitsFrom(buf, start, 0, 0)
        fraction == IF buf[whole.end + 1] = "."
                    THEN digitsFrom(buf, whole.end + 1, whole.value, 0)
                    ELSE [value |-> whole.value, count |-> 0, end |-> whole.end]
    IN  IF whole.count + fraction.count = 0
        THEN [num |-> 0, scale |-> 1, end |-> off]
        ELSE [num |-> fraction.value, scale |-> Pow10(fraction.count), end |-> fraction.end]

MHz == <<"M", "H", "z">>

GHz == <<"G", "H", "z">>

\* The conversion of speed + 0.5 to unsigned, speed being num / scale: the
\* fraction is dropped. (The magnitudes of the model have at most two decimal
\* places, where the double's rounding error cannot move the sum across an
\* integer, and stay far below 2^32.)
ToUnsignedPlusHalf(num, scale) == (2 * num + scale) \div (2 * scale)

\* The bug of taking every magnitude below 100 as GHz, whatever its unit.
ExtractSpeedIgnoringMHz(buf, off, junk) ==
    IF OutsideBuffer(buf, off)
    THEN junk
    ELSE LET text == strstrAt(buf, off)
         IN  IF text = NULL
             THEN 0
             ELSE LET speed == strtod(buf, text + 1)
                      unit == skipSpace(buf, speed.end)
                      isGHz == beginsWith(buf, unit, GHz)
                      isGHzPossible == speed.num < 100 * speed.scale
                  IN  IF isGHz \/ isGHzPossible
                      THEN ToUnsignedPlusHalf(1000 * speed.num, speed.scale)
                      ELSE ToUnsignedPlusHalf(speed.num, speed.scale)

\* Collection::extractSpeedFromModelName; strncmp(unit, "MHz", 3) is 0 exactly
\* when the text at unit begins with the three characters.
extractSpeedFromModelName(buf, off, junk) ==
    IF OutsideBuffer(buf, off)
    THEN junk
    ELSE LET text == strstrAt(buf, off)
         IN  IF text = NULL
             THEN 0
             ELSE LET speed == strtod(buf, text + 1)
                      unit == skipSpace(buf, speed.end)
                      isMHz == beginsWith(buf, unit, MHz)
                      isGHz == beginsWith(buf, unit, GHz)
                      isGHzPossible == speed.num < 100 * speed.scale
                  IN  IF isGHz \/ (isGHzPossible /\ ~isMHz)
                      THEN ToUnsignedPlusHalf(1000 * speed.num, speed.scale)
                      ELSE ToUnsignedPlusHalf(speed.num, speed.scale)

\* The field names parseValue looks for.
fieldProcessor == <<"p", "r", "o", "c", "e", "s", "s", "o", "r">>

fieldPhysicalId == <<"p", "h", "y", "s", "i", "c", "a", "l", " ", "i", "d">>

fieldSiblings == <<"s", "i", "b", "l", "i", "n", "g", "s">>

fieldCoreId == <<"c", "o", "r", "e", " ", "i", "d">>

fieldCpuCores == <<"c", "p", "u", " ", "c", "o", "r", "e", "s">>

fieldModelName == <<"m", "o", "d", "e", "l", " ", "n", "a", "m", "e">>

\* Collection::parseValue with Collection::appendNewProcessor: the records
\* and currentProcessor afterwards. fieldName and valueString are offsets.
parseValue(procs, current, buf, fieldName, valueString, junk) ==
    LET appended == IF current = NULL THEN Append(procs, Processor) ELSE procs
        p == IF current = NULL THEN Len(procs) + 1 ELSE current
        r0 == appended[p]
        r1 == IF beginsWith(buf, fieldName, fieldProcessor)
              THEN [r0 EXCEPT !.processor = parseInteger(buf, valueString, junk)] ELSE r0
        r2 == IF beginsWith(buf, fieldName, fieldPhysicalId)
              THEN [r1 EXCEPT !.physicalId = parseInteger(buf, valueString, junk)] ELSE r1
        r3 == IF beginsWith(buf, fieldName, fieldSiblings)
              THEN [r2 EXCEPT !.siblings = parseInteger(buf, valueString, junk)] ELSE r2
        r4 == IF beginsWith(buf, fieldName, fieldCoreId)
              THEN [r3 EXCEPT !.coreId = parseInteger(buf, valueString, junk)] ELSE r3
        r5 == IF beginsWith(buf, fieldName, fieldCpuCores)
              THEN [r4 EXCEPT !.cpuCores = parseInteger(buf, valueString, junk)] ELSE r4
        r6 == IF beginsWith(buf, fieldName, fieldModelName)
              THEN [r5 EXCEPT !.speedMHz = extractSpeedFromModelName(buf, valueString, junk)]
              ELSE r5
    IN  [processors |-> [appended EXCEPT ![p] = r6], currentProcessor |-> p]

\* The bug of keeping the record open over a line without delimiter.
ParseCpuInfoLineKeepingRecord(procs, current, buf, cpuInfoLine, junk) ==
    LET delimiterPosition == strcspn(buf, cpuInfoLine)
    IN  IF buf[cpuInfoLine + delimiterPosition + 1] = NUL
        THEN [processors |-> procs, currentProcessor |-> current]
        ELSE parseValue(procs, current, buf, cpuInfoLine,
                        cpuInfoLine + delimiterPosition + 2, junk)

\* Collection::parseCpuInfoLine on the line at offset cpuInfoLine.
parseCpuInfoLine(procs, current, buf, cpuInfoLine, junk) ==
    LET delimiterPosition == strcspn(buf, cpuInfoLine)
    IN  IF buf[cpuInfoLine + delimiterPosition + 1] = NUL
        THEN [processors |-> procs, currentProcessor |-> NULL]
        ELSE parseValue(procs, current, buf, cpuInfoLine,
                        cpuInfoLine + delimiterPosition + 2, junk)

\* Collection::getProcessor: the position operator[] takes the record from.
getProcessor(processorId) == processorId + 1

-----------------------------------------------------------------------------
(* Collection::parseCpuInfo over a text: SpecParse *)

\* Largest number of lines of a text of SpecParse.
MaxLines == 3

\* The lines of the texts: "processor" 1 and 2, "cpu cores" with a value and
\* with the delimiter as its last character, a field the parser does not
\* know, a line without delimiter, and the empty line.
CpuInfoLines ==
    {
     <<"p", "r", "o", "c", "e", "s", "s", "o", "r", "\t", ":", " ", "1">>,
     <<"p", "r", "o", "c", "e", "s", "s", "o", "r", "\t", ":", " ", "2">>,
     <<"c", "p", "u", " ", "c", "o", "r", "e", "s", "\t", ":", " ", "2">>,
     <<"c", "p", "u", " ", "c", "o", "r", "e", "s", ":">>,
     <<"b", "o", "g", "u", "s", "\t", ":", " ", "9">>,
     <<"4">>,
     << >> }

\* What a read outside the buffer may find.
JunkValues == {0, 9}

\* The text of a file of the given lines, a newline after each, the one
\* after the last line being there or not.
RECURSIVE FileText(_, _)
FileText(lines, newlineAtEnd) ==
    IF Len(lines) = 0
    THEN << >>
    ELSE IF Len(lines) = 1
         THEN IF newlineAtEnd THEN lines[1] \o <<"\n">> ELSE lines[1]
         ELSE lines[1] \o <<"\n">> \o FileText(Tail(lines), newlineAtEnd)

\* CpuInfo is constructed over a text; the Collection's constructor has set
\* currentProcessor = NULL and is about to call parseCpuInfo.
Loaded ==
    /\ currentLine = NULL
    /\ currentProcessor = NULL
    /\ processors = << >>
    /\ environ = {}
    /\ osMask = CpuIds
    /\ divZero = "trap"
    /\ pc = "loaded"
    /\ Unconstructed

InitParse ==
    /\ \E n \in 0 .. MaxLines :
         \E lines \in [1 .. n -> CpuInfoLines], newlineAtEnd \in BOOLEAN :
           /\ fileLines = lines
           /\ content = loadContent(FileText(lines, newlineAtEnd))
    /\ Loaded

\* Collection::parseCpuInfo, the call of getFirstLine up to where it calls
\* getNextLine.
GetFirstLine ==
    /\ pc = "loaded"
    /\ currentLine' = getFirstLine(content)
    /\ pc' = "parsing"
    /\ event' = Event("getFirstLine", 0, FALSE, 0, FALSE)
    /\ UNCHANGED <<processors, processorIt, uniquePhysicalId, totalNumberOfSockets,
                   totalNumberOfCpuCores, fileLines, content, currentProcessor, callerVars,
                   environ, osMask, divZero, planVars, isGpuEnabled, runtimeVars, cerr>>

\* parseValue reads the text at valueString for the line at fieldName: the
\* line begins with one of the names.
ReadsValue(buf, fieldName) ==
    \E name \in {fieldProcessor, fieldPhysicalId, fieldSiblings, fieldCoreId,
                  fieldCpuCores, fieldModelName} : beginsWith(buf, fieldName, name)

\* One iteration of the loop of Collection::parseCpuInfo: getNextLine hands
\* out a line and parseCpuInfoLine takes it. event keeps the line's offset,
\* whether it has a delimiter, and the offset of valueString. A read outside
\* the buffer finds junk or ends the process.
ParseCpuInfoLine ==
    /\ pc = "parsing"
    /\ LET next == getNextLine(content, currentLine)
           cpuInfoLine == next.line
       IN  /\ cpuInfoLine # NULL
           /\ \E junk \in JunkValues, trap \in BOOLEAN :
                LET delimiterPosition == strcspn(content, cpuInfoLine)
                    hasDelimiter == content[cpuInfoLine + delimiterPosition + 1] # NUL
                    valueString == cpuInfoLine + delimiterPosition + 2
                    readsOutside == /\ hasDelimiter
                                    /\ ReadsValue(content, cpuInfoLine)
                                    /\ OutsideBuffer(content, valueString)
                    parsed == parseCpuInfoLine(processors, currentProcessor, content,
                                               cpuInfoLine, junk)
                IN  /\ processors' = parsed.processors
                    /\ currentProcessor' = parsed.currentProcessor
                    /\ pc' = IF readsOutside /\ trap THEN "Crashed" ELSE "parsing"
                    /\ event' = Event("parseCpuInfoLine", cpuInfoLine, hasDelimiter,
                                      IF hasDelimiter THEN valueString ELSE NULL,
                                      readsOutside)
           /\ currentLine' = next.currentLine
    /\ UNCHANGED <<processorIt, uniquePhysicalId, totalNumberOfSockets,
                   totalNumberOfCpuCores, fileLines, content, callerVars,
                   environ, osMask, divZero, planVars, isGpuEnabled, runtimeVars, cerr>>

\* getNextLine returns NULL: parseCpuInfo is done and the constructor runs
\* collectBasicCpuInformation.
ParseEnd ==
    /\ pc = "parsing"
    /\ getNextLine(content, currentLine).line = NULL
    /\ CollectionConstructor
    /\ pc' = "parsed"
    /\ event' = Event("parsed", 0, FALSE, 0, FALSE)
    /\ UNCHANGED <<processors, parserVars, callerVars, environ, osMask, divZero, planVars,
                   isGpuEnabled, runtimeVars, cerr>>

\* A call of Collection::getProcessor with the "processor" value of one of the
\* records; event keeps the value asked for and the "processor" value of the
\* record returned. A position behind the last record is no element of the
\* vector: the read finds junk or ends the process.
GetProcessor ==
    /\ pc = "parsed"
    /\ \E i \in DOMAIN processors, junk \in JunkValues, trap \in BOOLEAN :
         LET processorId == processors[i].processor
             position == getProcessor(processorId)
             outside == position > Len(processors)
         IN  /\ pc' = IF outside /\ trap THEN "Crashed" ELSE "parsed"
             /\ event' = Event("getProcessor", processorId, FALSE,
                               IF outside THEN junk ELSE processors[position].processor,
                               outside)
    /\ UNCHANGED <<collectionVars, callerVars, environ, osMask, divZero, planVars,
                   isGpuEnabled, runtimeVars, cerr>>

NextParse ==
    \/ GetFirstLine
    \/ ParseCpuInfoLine
    \/ ParseEnd
    \/ GetProcessor

SpecParse == InitParse /\ [][NextParse]_vars

-----------------------------------------------------------------------------
(* The clock of a "model name" line: SpecClock *)

\* The magnitudes behind the '@': the text and the number it writes, as the
\* fraction num / scale; the last one is no number at all.
Magnitudes ==
    {
     [text |-> <<"2", ".", "5", "0">>, num |-> 250, scale |-> 100],
     [text |-> <<"1", "2", "0", "0">>, num |-> 1200, scale |-> 1],
     [text |-> <<"9", "5">>, num |-> 95, scale |-> 1],
     [text |-> <<"1", "5", "0">>, num |-> 150, scale |-> 1],
     [text |-> <<"1", "0", "0">>, num |-> 100, scale |-> 1],
     [text |-> <<"9", "9", ".", "5">>, num |-> 995, scale |-> 10],
     [text |-> <<"0", ".", "5">>, num |-> 5, scale |-> 10],
     [text |-> << >>, num |-> 0, scale |-> 1] }

\* The units behind the magnitude.
Units == {GHz, MHz, <<"k", "H", "z">>, << >>}

\* The white space before the magnitude and before the unit.
Spaces == {<< >>, <<" ">>}

\* What the value has before the '@'.
Prefixes == {<< >>, <<"C", "P", "U", " ">>}

\* The model names of SpecClock: with or without '@'.
ClockInputs ==
    [prefix : Prefixes, hasAt : BOOLEAN, before : Spaces, magnitude : Magnitudes,
     after : Spaces, unit : Units]

\* The "model name" line of an input.
ClockLine(in) ==
    <<"m", "o", "d", "e", "l", " ", "n", "a", "m", "e", "\t", ":", " ">> \o in.prefix \o (IF in.hasAt THEN <<"@">> ELSE << >>)
        \o in.before \o in.magnitude.text \o in.after \o in.unit

\* A text of one "model name" line.
InitClock ==
    /\ \E in \in ClockInputs, newlineAtEnd \in BOOLEAN :
         /\ fileLines = <<ClockLine(in)>>
         /\ content = loadContent(FileText(<<ClockLine(in)>>, newlineAtEnd))
    /\ Loaded

SpecClock == InitClock /\ [][NextParse]_vars

-----------------------------------------------------------------------------
(* Concurrent first calls of getInstance: SpecGuard *)

\* What a thread does when control reaches the declaration of a static local
\* whose guard is in the given state: it initialises the variable, or waits
\* for the thread that is initialising it, or passes the declaration.
UnguardedStatic(state) == IF state = "Done" THEN "pass" ELSE "construct"

staticGuard(state) ==
    CASE state = "Uninitialized" -> "construct"
      [] state = "InProgress" -> "wait"
      [] OTHER -> "pass"

\* Where a thread is once declaration k is behind it.
Past(k) == IF k = 3 THEN Holding ELSE <<k + 1, "at">>

InitGuard ==
    /\ \E n \in 0 .. MaxProcs, c \in 0 .. MaxCpuCores : processors = UniformTopology(n, c)
    /\ environ \in SUBSET EnvNames
    /\ osMask = CpuIds
    /\ divZero \in DivZeroOutcomes
    /\ pc = "Uninitialized"
    /\ Unconstructed
    /\ NoFile

\* Thread t calls a static operation, which calls getInstance().
Call(t) ==
    /\ pc # "Crashed"
    /\ callers[t] = Idle
    /\ callers' = [callers EXCEPT ![t] = <<1, "at">>]
    /\ event' = Event("call", t, FALSE, 0, FALSE)
    /\ UNCHANGED <<collectionVars, guard, constructions, environ, osMask, divZero, pc,
                   planVars, isGpuEnabled, runtimeVars, cerr>>

\* Control of thread t reaches the declaration of a static.
Declare(t) ==
    /\ pc # "Crashed"
    /\ callers[t][2] = "at"
    /\ LET k == callers[t][1]
           todo == staticGuard(guard[k])
       IN  /\ guard' = IF todo = "construct" THEN [guard EXCEPT ![k] = "InProgress"] ELSE guard
           /\ callers' = [callers EXCEPT ![t] =
                             CASE todo = "construct" -> <<k, "init">>
                               [] todo = "wait" -> <<k, "wait">>
                               [] OTHER -> Past(k)]
    /\ event' = Event("declare", t, FALSE, 0, FALSE)
    /\ UNCHANGED <<collectionVars, constructions, environ, osMask, divZero, pc,
                   planVars, isGpuEnabled, runtimeVars, cerr>>

\* Thread t runs the constructor of the static it is initialising; a
\* constructor that traps ends the process before the static is initialised.
Construct(t) ==
    /\ pc # "Crashed"
    /\ callers[t][2] = "init"
    /\ LET k == callers[t][1]
       IN  /\ CASE k = 1 -> UNCHANGED <<processorIt, uniquePhysicalId, totalNumberOfSockets,
                                        totalNumberOfCpuCores, planVars, isGpuEnabled, pc>>
                 [] k = 2 -> CollectionConstructor /\ UNCHANGED <<planVars, isGpuEnabled, pc>>
                 [] OTHER -> /\ UNCHANGED <<processorIt, uniquePhysicalId, totalNumberOfSockets,
                                            totalNumberOfCpuCores>>
                             /\ OpenMpManagerConstructor
           /\ IF pc' = "Crashed"
              THEN UNCHANGED <<guard, constructions, callers>>
              ELSE /\ guard' = [guard EXCEPT ![k] = "Done"]
                   /\ constructions' = [constructions EXCEPT ![k] = @ + 1]
                   /\ callers' = [callers EXCEPT ![t] = Past(k)]
    /\ event' = Event("construct", t, FALSE, 0, FALSE)
    /\ UNCHANGED <<processors, parserVars, environ, osMask, divZero, runtimeVars, cerr>>

\* Thread t, waiting at a declaration, finds the static initialised.
Wake(t) ==
    /\ pc # "Crashed"
    /\ callers[t][2] = "wait"
    /\ guard[callers[t][1]] = "Done"
    /\ callers' = [callers EXCEPT ![t] = Past(callers[t][1])]
    /\ event' = Event("wake", t, FALSE, 0, FALSE)
    /\ UNCHANGED <<collectionVars, guard, constructions, environ, osMask, divZero, pc,
                   planVars, isGpuEnabled, runtimeVars, cerr>>

\* getInstance() has returned to thread t inside setGpuEnabled or
\* setGpuDisabled: the flag is assigned and the operation returns.
AssignGpuFlag(t) ==
    /\ pc # "Crashed"
    /\ callers[t] = Holding
    /\ \E value \in BOOLEAN :
         /\ isGpuEnabled' = value
         /\ event' = Event(IF value THEN "setGpuEnabled" ELSE "setGpuDisabled", t,
                           FALSE, 0, FALSE)
    /\ callers' = [callers EXCEPT ![t] = Idle]
    /\ UNCHANGED <<collectionVars, guard, constructions, environ, osMask, divZero, pc,
                   planVars, runtimeVars, cerr>>

NextGuard ==
    \E t \in CallerIds :
        \/ Call(t)
        \/ Declare(t)
        \/ Construct(t)
        \/ Wake(t)
        \/ AssignGpuFlag(t)

SpecGuard == InitGuard /\ [][NextGuard]_vars

-----------------------------------------------------------------------------
(* Properties *)

\* The steps that are calls of a binding operation.
BindingOps == {"bindCurrentThreadToNonPrimaryCoreIfPossible", "bindOpenMpThreads"}

\* One of the names the manager looks for is set in the environment.
EnvOverridePresent == \E name \in environ : \E i \in DOMAIN openMpEnvVars : openMpEnvVars[i] = name

\* The member of set with exactly i members below it.
NthLowest(set, i) == CHOOSE x \in set : Cardinality({y \in set : y < x}) = i

\* C1: once the manager is constructed, a call of isThreadsBindAllowed returns
\* true exactly when isAnyOpenMpEnvVarSpecified and isGpuEnabled are both
\* false; it returns false whenever a variable of the list was set at
\* construction and whenever the GPU flag is set; and the call changes nothing.
C1_BindAllowedIff ==
    /\ [](pc = "Ready" /\ event.op = "isThreadsBindAllowed" =>
            /\ event.allowed <=> (~isAnyOpenMpEnvVarSpecified /\ ~isGpuEnabled)
            /\ EnvOverridePresent => ~event.allowed
            /\ isGpuEnabled => ~event.allowed
            /\ (~EnvOverridePresent /\ ~isGpuEnabled) => event.allowed)
    /\ [][event'.op = "isThreadsBindAllowed" =>
            UNCHANGED <<collectionVars, environ, osMask, divZero, pc, planVars, isGpuEnabled,
                        runtimeVars, cerr>>]_vars

\* C1 witness: the call returned false with a listed variable set and the GPU
\* flag clear.
C1_Witness ==
    /\ pc = "Ready"
    /\ event.op = "isThreadsBindAllowed"
    /\ ~event.allowed
    /\ "KMP_AFFINITY" \in environ
    /\ ~isGpuEnabled

\* C2: a call of either binding operation made while a listed variable was
\* set or the GPU flag is set passes no mask to sched_setaffinity, leaves the
\* runtime's thread count alone and starts no parallel region.
C2_NoOpUnlessAllowed ==
    [][(event'.op \in BindingOps /\ (isAnyOpenMpEnvVarSpecified \/ isGpuEnabled)) =>
         UNCHANGED <<affinity, ompNumThreads, team, pending, pc, cerr>>]_vars

\* C2 witness: bindOpenMpThreads was called with the GPU flag set and no listed
\* variable in the environment.
C2_Witness ==
    /\ pc = "Ready"
    /\ event.op = "bindOpenMpThreads"
    /\ isGpuEnabled
    /\ ~EnvOverridePresent
    /\ team = 0

\* The positions of the records that are the first of their socket.
FirstOfSocket(procs) ==
    {i \in DOMAIN procs : \A j \in 1 .. (i - 1) : procs[j].physicalId # procs[i].physicalId}

\* The sum of the cpuCores fields at the positions of the set.
RECURSIVE SumCpuCores(_, _)
SumCpuCores(procs, positions) ==
    IF positions = {}
    THEN 0
    ELSE LET i == CHOOSE x \in positions : TRUE
         IN  procs[i].cpuCores + SumCpuCores(procs, positions \ {i})

\* C3: when collectBasicCpuInformation is done, totalNumberOfSockets is the
\* number of distinct physicalId values of the records and
\* totalNumberOfCpuCores is the sum, over those values, of the cpuCores of the
\* first record that carries the value; later records of a socket add nothing.
C3_FirstRecordOfSocketCounts ==
    pc = "collected" =>
        /\ totalNumberOfSockets =
               Cardinality({processors[i].physicalId : i \in DOMAIN processors})
        /\ totalNumberOfCpuCores = SumCpuCores(processors, FirstOfSocket(processors))

\* C3 witness: sockets 0,0,1,1,0 with cpu cores 4,4,6,6,9 gave 2 sockets and
\* 10 cores.
C3_Witness ==
    /\ pc = "collected"
    /\ [i \in DOMAIN processors |-> processors[i].physicalId] = <<0, 0, 1, 1, 0>>
    /\ [i \in DOMAIN processors |-> processors[i].cpuCores] = <<4, 4, 6, 6, 9>>
    /\ totalNumberOfSockets = 2
    /\ totalNumberOfCpuCores = 10

\* The allowed processors the topology knows.
KnownAllowed == {p \in currentCpuSet : p < Len(processors)}

\* C4: once the manager is constructed over a topology with
\* totalNumberOfCpuCores > 0, currentCoreSet is a subset of currentCpuSet, no
\* two of its members are equal modulo totalNumberOfCpuCores, and for every
\* allowed processor the topology knows it holds the lowest allowed processor
\* that is equal to it modulo totalNumberOfCpuCores.
C4_OneLowestPerCore ==
    (pc = "Ready" /\ totalNumberOfCpuCores > 0) =>
        /\ currentCoreSet \subseteq currentCpuSet
        /\ \A a, b \in currentCoreSet :
               a # b => a % totalNumberOfCpuCores # b % totalNumberOfCpuCores
        /\ \A p \in KnownAllowed :
               \E q \in currentCoreSet :
                   /\ q % totalNumberOfCpuCores = p % totalNumberOfCpuCores
                   /\ \A r \in currentCpuSet :
                          r % totalNumberOfCpuCores = p % totalNumberOfCpuCores => q <= r

\* C4 witness: an allowed processor is left out for a lower one of its core,
\* and a core is represented by a processor that is not its lowest one.
C4_Witness ==
    /\ pc = "Ready"
    /\ totalNumberOfCpuCores = 2
    /\ Len(processors) = 3
    /\ currentCpuSet = {1, 2}
    /\ currentCoreSet = {1, 2}

\* The record of logical processor p.
RecordOf(p) == CHOOSE r \in {processors[i] : i \in DOMAIN processors} : r.processor = p

\* The physical cores, as (physicalId, coreId) pairs, of the allowed
\* processors the topology knows.
AllowedPhysicalCores == {<<RecordOf(p).physicalId, RecordOf(p).coreId>> : p \in KnownAllowed}

\* C5: once the manager is constructed, the size of currentCoreSet is the
\* number of distinct (physicalId, coreId) pairs among the records of the
\* allowed processors.
C5_CoreCountIsPhysicalCores ==
    pc = "Ready" => getCoreNumber = Cardinality(AllowedPhysicalCores)

\* C6: a call of bindOpenMpThreads(env_cores) made while binding is allowed
\* sets the runtime's thread count to the size of currentCoreSet when
\* env_cores = 0 and leaves it as it was when env_cores # 0.
C6_ThreadCountLimit ==
    [][(event'.op = "bindOpenMpThreads" /\ ~isAnyOpenMpEnvVarSpecified /\ ~isGpuEnabled) =>
         IF event'.arg = 0
         THEN ompNumThreads' = Cardinality(currentCoreSet)
         ELSE ompNumThreads' = ompNumThreads]_vars

\* C7: in the parallel region every worker that ran the body passed to
\* sched_setaffinity the set of exactly the member of currentCoreSet with as
\* many members below it as the worker's number, so the workers hold distinct
\* members of currentCoreSet; and the step of a worker changes no other
\* thread's mask.
C7_WorkerBindsOwnCore ==
    /\ [](pc = "Ready" =>
            \A i \in (0 .. (team - 1)) \ pending :
                /\ i < Cardinality(currentCoreSet)
                /\ affinity[i] = {NthLowest(currentCoreSet, i)})
    /\ [][event'.op = "worker" =>
            \A t \in ThreadIds \ {event'.arg} : affinity'[t] = affinity[t]]_vars

\* Two processors are of one core under the manager's mapping.
SameCore(p, q) ==
    IF totalNumberOfCpuCores > 0
    THEN p % totalNumberOfCpuCores = q % totalNumberOfCpuCores
    ELSE p = q

\* C8: a call of bindCurrentThreadToNonPrimaryCoreIfPossible made while
\* binding is allowed and currentCoreSet is not empty takes the second lowest
\* member of currentCoreSet, or its only member, and passes to
\* sched_setaffinity exactly the allowed processors of that member's core.
C8_BindsToSiblingsOfSecondCore ==
    [][(/\ event'.op = "bindCurrentThreadToNonPrimaryCoreIfPossible"
        /\ ~isAnyOpenMpEnvVarSpecified
        /\ ~isGpuEnabled
        /\ currentCoreSet # {}) =>
         LET selected == NthLowest(currentCoreSet,
                                   IF Cardinality(currentCoreSet) >= 2 THEN 1 ELSE 0)
         IN  /\ pc' = "Ready"
             /\ affinity'[0] = {p \in KnownAllowed : SameCore(p, selected)}]_vars

\* C9: a step in which getPhysicalCoreId is given an index that is not below
\* the size of currentCoreSet ends the process there: no mask is passed to
\* sched_setaffinity in it and the manager does not stay in operation.
C9_OutOfRangeIsFatal ==
    [][event'.outOfRange => (pc' = "Crashed" /\ affinity' = affinity)]_vars

\* C10: no call of a binding operation, and no worker of its parallel region,
\* ends in a crash or fails to return.
C10_BindingNeverFails ==
    event.op \in BindingOps \cup {"worker", "join"} => pc \notin {"Crashed", "Hung"}

\* getCurrentCoreSet computed processorId % 0: the aggregate was 0 and the
\* loop met an allowed processor the topology knows.
RemainderByZeroAtConstruction == totalNumberOfCpuCores = 0 /\ KnownAllowed # {}

\* C11: when construction finds totalNumberOfCpuCores = 0, getCurrentCoreSet
\* computes no remainder by zero, the process goes on, and currentCoreSet is
\* empty, so getCoreNumber() is 0.
C11_ZeroCoresGivesEmptyCoreSet ==
    (event.op = "getInstance" /\ totalNumberOfCpuCores = 0) =>
        /\ ~RemainderByZeroAtConstruction
        /\ pc = "Ready"
        /\ currentCoreSet = {}
        /\ getCoreNumber = 0

\* C12: when several threads make their first call at once, each static of
\* getInstance is constructed at most once; a thread holds the reference, and
\* assigns the GPU flag through it, only when all three are constructed and
\* the manager is Ready; and the manager never leaves Ready.
C12_ConstructedExactlyOnce ==
    /\ [](/\ \A k \in Statics : constructions[k] <= 1
          /\ \A t \in CallerIds :
                 callers[t] = Holding =>
                     /\ pc = "Ready"
                     /\ \A k \in Statics : guard[k] = "Done" /\ constructions[k] = 1
          /\ pc = "Ready" => \A k \in Statics : constructions[k] = 1)
    /\ [][/\ pc = "Ready" => pc' = "Ready"
          /\ event'.op \in {"setGpuEnabled", "setGpuDisabled"} => pc = "Ready"]_vars

\* C12 witness: the collection is constructed, one thread is constructing the
\* manager and another, arrived meanwhile, waits at its declaration.
C12_Witness ==
    /\ constructions = <<1, 1, 0>>
    /\ callers[1] = <<3, "wait">>
    /\ callers[2] = <<3, "init">>

\* C13: whenever a thread passes a mask to sched_setaffinity, whether the
\* caller of bindCurrentThreadToNonPrimaryCoreIfPossible or a worker of the
\* parallel region of bindOpenMpThreads, the GPU flag is not set, whatever
\* calls of setGpuEnabled and setGpuDisabled other threads make meanwhile.
C13_NoBindingWhileGpuEnabled ==
    [][affinity' # affinity => ~isGpuEnabled]_vars

\* What construction derived: the records and their aggregates, the override
\* flag, the allowed CPUs and the one CPU per core.
DerivedAtConstruction ==
    <<processors, totalNumberOfSockets, totalNumberOfCpuCores,
      isAnyOpenMpEnvVarSpecified, currentCpuSet, currentCoreSet>>

\* C14: once the manager is constructed no operation changes the records, the
\* aggregates, isAnyOpenMpEnvVarSpecified, currentCpuSet or currentCoreSet;
\* isGpuEnabled is false when construction ends, becomes true only in
\* setGpuEnabled and false only in setGpuDisabled, and those two calls leave
\* it true and false.
C14_OnlyGpuFlagChanges ==
    /\ [](event.op = "getInstance" => ~isGpuEnabled)
    /\ [][pc # "Uninitialized" =>
            /\ UNCHANGED DerivedAtConstruction
            /\ (isGpuEnabled' /\ ~isGpuEnabled) => event'.op = "setGpuEnabled"
            /\ (~isGpuEnabled' /\ isGpuEnabled) => event'.op = "setGpuDisabled"
            /\ event'.op = "setGpuEnabled" => isGpuEnabled'
            /\ event'.op = "setGpuDisabled" => ~isGpuEnabled']_vars

\* C14 witness: after setGpuEnabled and a call of bindOpenMpThreads the GPU
\* flag is set and the core set is the one construction derived.
C14_Witness ==
    /\ pc = "Ready"
    /\ event.op = "bindOpenMpThreads"
    /\ isGpuEnabled
    /\ Len(processors) = 3
    /\ currentCoreSet = {0, 1}

\* num / scale rounded to the nearest integer, halves upwards.
Round(num, scale) == (2 * num + scale) \div (2 * scale)

\* The clock in MHz a model name stands for: 0 without '@'; the magnitude
\* times 1000 when the unit is GHz, or is not MHz while the magnitude is below
\* 100; the magnitude otherwise.
ExpectedSpeedMHz(in) ==
    IF ~in.hasAt
    THEN 0
    ELSE IF in.unit = GHz \/ (in.unit # MHz /\ in.magnitude.num < 100 * in.magnitude.scale)
         THEN Round(1000 * in.magnitude.num, in.magnitude.scale)
         ELSE Round(in.magnitude.num, in.magnitude.scale)

\* C15: the speedMHz parsed from a "model name" line is 0 when the value has
\* no '@'; otherwise it is the magnitude behind the '@' times 1000, rounded,
\* when the unit behind it is GHz or is not MHz while the magnitude is below
\* 100, and the rounded magnitude itself in every other case.
C15_ClockFromModelName ==
    pc = "parsed" =>
        \A in \in ClockInputs :
            fileLines = <<ClockLine(in)>> =>
                /\ Len(processors) = 1
                /\ processors[1].speedMHz = ExpectedSpeedMHz(in)

\* C15 witness: "model name : CPU @ 95", a magnitude below 100 without unit,
\* was parsed to 95000 MHz.
C15_Witness ==
    /\ pc = "parsed"
    /\ fileLines = <<ClockLine([prefix |-> <<"C", "P", "U", " ">>, hasAt |-> TRUE,
                                before |-> <<" ">>,
                                magnitude |-> [text |-> <<"9", "5">>, num |-> 95, scale |-> 1],
                                after |-> << >>, unit |-> << >>])>>
    /\ processors[1].speedMHz = 95000

\* The "processor" values of the records are distinct and ascend in file order.
UniqueAscending(procs) ==
    \A i, j \in DOMAIN procs : i < j => procs[i].processor < procs[j].processor

\* C16: over records whose "processor" values are distinct and ascending,
\* getProcessor called with the "processor" value of a record returns that
\* record, wherever the values start and whatever gaps they leave.
C16_LookupByLogicalId ==
    (event.op = "getProcessor" /\ UniqueAscending(processors)) =>
        /\ pc = "parsed"
        /\ ~event.outOfRange
        /\ event.ret = event.arg

\* C17: every index handed to getPhysicalCoreId, by
\* bindCurrentThreadToNonPrimaryCoreIfPossible when binding is allowed and by
\* every worker of the parallel region of bindOpenMpThreads, is below the
\* size of currentCoreSet.
C17_CoreIndexInRange ==
    [][/\ event'.op = "worker" => event'.arg < Cardinality(currentCoreSet)
       /\ (event'.op = "bindCurrentThreadToNonPrimaryCoreIfPossible" /\ event'.allowed) =>
              (IF Cardinality(currentCoreSet) > 1 THEN 1 ELSE 0) < Cardinality(currentCoreSet)]_vars

\* The line has a ':'.
HasDelimiter(line) == \E i \in DOMAIN line : line[i] = ":"

\* The positions where a run of lines with a delimiter starts.
RunStarts(lines) ==
    {i \in DOMAIN lines : HasDelimiter(lines[i]) /\ (i = 1 \/ ~HasDelimiter(lines[i - 1]))}

\* The line of the buffer that starts at off.
LineAt(buf, off) == SubSeq(buf, off + 1, stringEnd(buf, off))

\* text is the start of line.
IsPrefix(text, line) == Len(text) <= Len(line) /\ SubSeq(line, 1, Len(text)) = text

\* The line starts with one of the six field names.
Recognized(line) ==
    \/ IsPrefix(fieldProcessor, line)
    \/ IsPrefix(fieldPhysicalId, line)
    \/ IsPrefix(fieldSiblings, line)
    \/ IsPrefix(fieldCoreId, line)
    \/ IsPrefix(fieldCpuCores, line)
    \/ IsPrefix(fieldModelName, line)

\* C18: when parseCpuInfo is done there are as many records as the text has
\* maximal runs of consecutive lines with a ':'; a line without ':' adds no
\* record and changes none; a line with ':' adds at most one record, at the
\* end, and changes no record but the last; and a line that begins with none
\* of the six field names leaves every field of that record as it was (0 in a
\* record it opens).
C18_RecordSegmentation ==
    /\ [](pc = "parsed" => Len(processors) = Cardinality(RunStarts(fileLines)))
    /\ [][event'.op = "parseCpuInfoLine" =>
            LET line == LineAt(content, event'.arg)
                opens == HasDelimiter(line) /\ currentProcessor = NULL
            IN  /\ Len(processors') = Len(processors) + (IF opens THEN 1 ELSE 0)
                /\ \A i \in 1 .. (Len(processors') - 1) : processors'[i] = processors[i]
                /\ ~HasDelimiter(line) => processors' = processors /\ currentProcessor' = NULL
                /\ HasDelimiter(line) => currentProcessor' = Len(processors')
                /\ (HasDelimiter(line) /\ ~Recognized(line)) =>
                       processors'[Len(processors')] =
                           (IF opens THEN Processor ELSE processors[Len(processors)])]_vars

\* C18 witness: a text of two runs of lines with ':', an empty line between
\* them, was parsed to the records of processor 1 and processor 2.
C18_Witness ==
    /\ pc = "parsed"
    /\ Len(fileLines) = 3
    /\ fileLines[2] = << >>
    /\ Len(processors) = 2
    /\ processors[1].processor = 1
    /\ processors[2].processor = 2

\* C19: for every line with a ':' the text parseCpuInfoLine hands on as its
\* value starts in that line, at its terminator at the latest, and in the
\* buffer; a line that ends at its ':' gives no field a value taken from the
\* line after it or from behind the buffer.
C19_ValueWithinLine ==
    (event.op = "parseCpuInfoLine" /\ event.allowed) =>
        /\ event.ret <= stringEnd(content, event.arg)
        /\ event.ret <= fileContentEnd(content)
        /\ ~event.outOfRange

=============================================================================
